---- MODULE Spec2Model ----
(***************************************************************************)
(* panopticon: a telemetry sink.  Homeservers POST a JSON usage report to  *)
(* /push; Recorder.Handle decodes it, stamps it with the receipt time, the *)
(* peer address and two headers, and Recorder.Save issues one INSERT into  *)
(* the table stats that createTable provisions at startup.                 *)
(*                                                                         *)
(* Two revisions of the program are modelled: revision 1 (src/main.go,     *)
(* sqlite3 only, six optional counters) and revision 2                     *)
(* (src/unnamed/part_000, a -db-driver flag, nine optional counters and    *)
(* two header columns).  The database outlives the process, so a table     *)
(* created by revision 1 is what revision 2 finds after an upgrade.        *)
(*                                                                         *)
(* Encodings.  A Go *int64 is <<>> (nil) or <<v>>.  A bound parameter (an  *)
(* interface{} of vals) is a record [k, v] tagged with its dynamic type.   *)
(* A stored SQL value is <<>> (NULL) or <<v>>.  A JSON value is a record   *)
(* [k, v] tagged with its JSON kind.                                       *)
(***************************************************************************)
EXTENDS Naturals, Integers, Sequences, FiniteSets, TLC

VARIABLES
    rev,        \* the revision of the running binary: 1 or 2
    dbDriver,   \* the -db-driver flag (revision 1 always opens "sqlite3")
    mainpc,     \* position of main
    stats,      \* the table stats in the database (it outlives the process)
    restarts,   \* number of times the process has been started again
    clock,      \* the wall clock, in seconds since the epoch
    pc,         \* position of each Handle goroutine
    request,    \* the *http.Request each Handle was called with
    now,        \* what time.Now().UTC().Unix() returned to each Handle
    sr,         \* the StatsReport variable of each Handle
    stmt,       \* the INSERT each Save handed to DB.Exec
    saveErr,    \* the error each Save returned
    response,   \* what each Handle wrote to its ResponseWriter
    execs,      \* number of DB.Exec calls each Handle has caused
    inserted    \* the id of the row each Exec inserted (sql.Result), 0 if none

vars == << rev, dbDriver, mainpc, stats, restarts, clock, pc, request, now, sr,
           stmt, saveErr, response, execs, inserted >>

-----------------------------------------------------------------------------
(* Bounds of the model *)

MaxRows == 2        \* rows the table may hold before requests stop arriving
MaxRestarts == 1    \* times the process may be started again

\* The Handle goroutines: two requests can be in flight at once.
Reqs == {1, 2}
Revs == {1, 2}

\* Drivers registered by the imports (part_000 lines 15-16); "postgres" is not.
Registered == {"sqlite3", "mysql"}
Drivers == {"sqlite3", "mysql", "postgres"}

-----------------------------------------------------------------------------
(* JSON bodies *)

JStr(s) == [k |-> "string", v |-> << s >>]
JNum(n) == [k |-> "number", v |-> << n >>]
JBool == [k |-> "bool", v |-> << >>]
JNull == [k |-> "null", v |-> << >>]

Malformed == [kind |-> "invalid", obj |-> << >>]
Object(o) == [kind |-> "object", obj |-> o]

\* The request bodies the environment sends.
Bodies == {
    Malformed,
    Object([Homeserver |-> JBool]),
    Object([Homeserver |-> JStr("a.org"), total_users |-> JNum(0)]),
    Object([Homeserver |-> JStr("b.org"), total_users |-> JNum(42),
            total_nonbridged_users |-> JNum(7), timestamp |-> JNull,
            LocalTimestamp |-> JNum(5), RemoteAddr |-> JStr("6.6.6.6:1"),
            XForwardedFor |-> JStr("6.6.6.6"), UserAgent |-> JStr("evil"),
            unknown_key |-> JStr("x")])
}

NoHeaders == [XForwardedFor |-> "", UserAgent |-> ""]

\* The clients that send them: the peer address the transport sees and the
\* X-Forwarded-For and User-Agent headers ("" when the header is not sent).
Clients == {
    [RemoteAddr |-> "10.0.0.1:4000", Header |-> NoHeaders],
    [RemoteAddr |-> "10.0.0.2:4000",
     Header |-> [XForwardedFor |-> "1.2.3.4", UserAgent |-> "Synapse"]]
}

-----------------------------------------------------------------------------
(* type StatsReport *)

Field(n, k, t) == [name |-> n, key |-> k, type |-> t]

\* Revision 1 of the struct, with the JSON key and the Go type of each field.
StatsReport1 == <<
    Field("Homeserver", "Homeserver", "string"),
    Field("LocalTimestamp", "LocalTimestamp", "int64"),
    Field("RemoteTimestamp", "timestamp", "*int64"),
    Field("UptimeSeconds", "uptime_seconds", "*int64"),
    Field("TotalUsers", "total_users", "*int64"),
    Field("TotalRoomCount", "total_room_count", "*int64"),
    Field("DailyActiveUsers", "daily_active_users", "*int64"),
    Field("DailyMessages", "daily_messages", "*int64"),
    Field("RemoteAddr", "RemoteAddr", "string")
>>

\* Revision 2 of the struct.
StatsReport2 == <<
    Field("Homeserver", "Homeserver", "string"),
    Field("LocalTimestamp", "LocalTimestamp", "int64"),
    Field("RemoteTimestamp", "timestamp", "*int64"),
    Field("UptimeSeconds", "uptime_seconds", "*int64"),
    Field("TotalUsers", "total_users", "*int64"),
    Field("TotalNonBridgedUsers", "total_nonbridged_users", "*int64"),
    Field("TotalRoomCount", "total_room_count", "*int64"),
    Field("DailyActiveUsers", "daily_active_users", "*int64"),
    Field("DailyMessages", "daily_messages", "*int64"),
    Field("DailySentMessages", "daily_sent_messages", "*int64"),
    Field("DailyActiveRooms", "daily_active_rooms", "*int64"),
    Field("RemoteAddr", "RemoteAddr", "string"),
    Field("XForwardedFor", "XForwardedFor", "string"),
    Field("UserAgent", "UserAgent", "string")
>>

StatsReport(v) == IF v = 1 THEN StatsReport1 ELSE StatsReport2

FieldNames(fields) == { fields[i].name : i \in 1 .. Len(fields) }
FieldNamed(fields, n) == fields[CHOOSE i \in 1 .. Len(fields) : fields[i].name = n]

\* The zero value of a Go type.
ZeroValue(type) ==
    CASE type = "string" -> ""
      [] type = "int64" -> 0
      [] type = "*int64" -> << >>

\* var sr StatsReport
ZeroReport(v) ==
    [n \in FieldNames(StatsReport(v)) |-> ZeroValue(FieldNamed(StatsReport(v), n).type)]

-----------------------------------------------------------------------------
(* json.Decoder.Decode into a StatsReport *)

\* encoding/json refuses a JSON value of a kind the Go type cannot hold; a JSON
\* null is accepted by every type.
TypeError(type, jv) ==
    /\ jv.k # "null"
    /\ \/ type = "string" /\ jv.k # "string"
       \/ type \in {"int64", "*int64"} /\ jv.k # "number"

\* What a field holds after a JSON value was decoded into it: null leaves a
\* string or an int64 alone and makes a pointer nil; a value of the wrong kind
\* leaves the field alone.
Unmarshal(type, jv) ==
    IF jv.k = "null" \/ TypeError(type, jv) THEN ZeroValue(type)
    ELSE IF type = "*int64" THEN << jv.v[1] >>
    ELSE jv.v[1]

\* dec.Decode(&sr): unknown keys are ignored, absent keys leave the zero value.
\* (Keys are matched as written; encoding/json also accepts another case.)
Decode(fields, body) ==
    [ err |-> \/ body.kind = "invalid"
              \/ \E i \in 1 .. Len(fields) :
                    /\ fields[i].key \in DOMAIN body.obj
                    /\ TypeError(fields[i].type, body.obj[fields[i].key]),
      sr  |-> [ n \in FieldNames(fields) |->
                  LET f == FieldNamed(fields, n) IN
                  IF body.kind = "object" /\ f.key \in DOMAIN body.obj
                  THEN Unmarshal(f.type, body.obj[f.key])
                  ELSE ZeroValue(f.type) ] ]

-----------------------------------------------------------------------------
(* Recorder.Save: the column list, the bound values, the placeholders *)

\* The dynamic type of an element of vals.
GoString(s) == [k |-> "string", v |-> << s >>]
GoInt64(n) == [k |-> "int64", v |-> << n >>]
GoPtr(p) == [k |-> "*int64", v |-> p]

\* Revision 1: if sr.X != nil { cols = append(cols, name); vals = append(vals, *sr.X) }
AppendDeref(cols, vals, name, value) ==
    IF value # << >>
    THEN [cols |-> Append(cols, name), vals |-> Append(vals, GoInt64(value[1]))]
    ELSE [cols |-> cols, vals |-> vals]

\* As appendIfNonNil, but a counter of 0 is taken for an absent one.
appendIfNonZero(cols, vals, name, value) ==
    IF value # << >> /\ value[1] # 0
    THEN [cols |-> Append(cols, name), vals |-> Append(vals, GoPtr(value))]
    ELSE [cols |-> cols, vals |-> vals]

\* Revision 2: the pointer itself is appended, not the integer it points to.
appendIfNonNil(cols, vals, name, value) ==
    IF value # << >>
    THEN [cols |-> Append(cols, name), vals |-> Append(vals, GoPtr(value))]
    ELSE [cols |-> cols, vals |-> vals]

appendIfNonEmpty(cols, vals, name, value) ==
    IF value # ""
    THEN [cols |-> Append(cols, name), vals |-> Append(vals, GoString(value))]
    ELSE [cols |-> cols, vals |-> vals]

Opt(c, f) == [col |-> c, field |-> f]

\* The optional columns of revision 1's Save, in the order of its if statements.
Optional1 == <<
    Opt("remote_timestamp", "RemoteTimestamp"),
    Opt("uptime_seconds", "UptimeSeconds"),
    Opt("total_users", "TotalUsers"),
    Opt("total_room_count", "TotalRoomCount"),
    Opt("daily_active_users", "DailyActiveUsers"),
    Opt("daily_messages", "DailyMessages")
>>

\* The appendIfNonNil calls in the order of the struct's fields instead.
OptionalIntsStructOrder == <<
    Opt("remote_timestamp", "RemoteTimestamp"),
    Opt("uptime_seconds", "UptimeSeconds"),
    Opt("total_users", "TotalUsers"),
    Opt("total_nonbridged_users", "TotalNonBridgedUsers"),
    Opt("total_room_count", "TotalRoomCount"),
    Opt("daily_active_users", "DailyActiveUsers"),
    Opt("daily_messages", "DailyMessages"),
    Opt("daily_sent_messages", "DailySentMessages"),
    Opt("daily_active_rooms", "DailyActiveRooms")
>>

\* The appendIfNonNil calls of revision 2's Save, in order.
OptionalInts2 == <<
    Opt("remote_timestamp", "RemoteTimestamp"),
    Opt("uptime_seconds", "UptimeSeconds"),
    Opt("total_users", "TotalUsers"),
    Opt("total_nonbridged_users", "TotalNonBridgedUsers"),
    Opt("total_room_count", "TotalRoomCount"),
    Opt("daily_active_users", "DailyActiveUsers"),
    Opt("daily_active_rooms", "DailyActiveRooms"),
    Opt("daily_messages", "DailyMessages"),
    Opt("daily_sent_messages", "DailySentMessages")
>>

\* The appendIfNonEmpty calls of revision 2's Save, in order.
OptionalStrings2 == <<
    Opt("forwarded_for", "XForwardedFor"),
    Opt("user_agent", "UserAgent")
>>

\* cols and vals as Save initialises them.
AlwaysPresent(s) ==
    [cols |-> << "homeserver", "local_timestamp", "remote_addr" >>,
     vals |-> << GoString(s.Homeserver), GoInt64(s.LocalTimestamp),
                 GoString(s.RemoteAddr) >>]

RECURSIVE Derefs(_, _, _, _)
Derefs(cv, opts, i, s) ==
    IF i > Len(opts) THEN cv
    ELSE Derefs(AppendDeref(cv.cols, cv.vals, opts[i].col, s[opts[i].field]),
                opts, i + 1, s)

RECURSIVE NonNils(_, _, _, _)
NonNils(cv, opts, i, s) ==
    IF i > Len(opts) THEN cv
    ELSE NonNils(appendIfNonNil(cv.cols, cv.vals, opts[i].col, s[opts[i].field]),
                 opts, i + 1, s)

RECURSIVE NonEmpties(_, _, _, _)
NonEmpties(cv, opts, i, s) ==
    IF i > Len(opts) THEN cv
    ELSE NonEmpties(appendIfNonEmpty(cv.cols, cv.vals, opts[i].col, s[opts[i].field]),
                    opts, i + 1, s)

\* cols and vals when Save reaches the placeholder loop.
ColsVals(v, s) ==
    IF v = 1 THEN Derefs(AlwaysPresent(s), Optional1, 1, s)
    ELSE NonEmpties(NonNils(AlwaysPresent(s), OptionalInts2, 1, s),
                    OptionalStrings2, 1, s)

Digits == << "0", "1", "2", "3", "4", "5", "6", "7", "8", "9" >>

\* fmt.Sprintf("%d", n) for n >= 0
RECURSIVE Itoa(_)
Itoa(n) == IF n < 10 THEN Digits[n + 1] ELSE Itoa(n \div 10) \o Digits[(n % 10) + 1]

\* The driver main opens: revision 1 has no flag and opens "sqlite3".
DriverName(v, flag) == IF v = 1 THEN "sqlite3" ELSE flag

\* As Placeholder, but numbered with the loop index itself.
PlaceholderFromZero(v, flag, i) ==
    IF v = 2 /\ flag = "mysql" THEN "?" ELSE "$" \o Itoa(i)

\* One turn of the loop "for i := range vals" (i counts from 0).
Placeholder(v, flag, i) ==
    IF v = 2 /\ flag = "mysql" THEN "?" ELSE "$" \o Itoa(i + 1)

valuePlaceholders(v, flag, vals) ==
    [ k \in 1 .. Len(vals) |-> Placeholder(v, flag, k - 1) ]

\* The statement Save hands to DB.Exec.
InsertStmt(v, flag, s) ==
    LET cv == ColsVals(v, s) IN
    [cols |-> cv.cols,
     placeholders |-> valuePlaceholders(v, flag, cv.vals),
     vals |-> cv.vals]

NoStmt == [cols |-> << >>, placeholders |-> << >>, vals |-> << >>]

-----------------------------------------------------------------------------
(* The database: the table stats *)

Null == << >>

NoTable == [exists |-> FALSE, cols |-> {}, rows |-> << >>]

\* The columns of revision 1's CREATE TABLE.
TableCols1 ==
    { "id", "homeserver", "local_timestamp", "remote_timestamp", "remote_addr",
      "uptime_seconds", "total_users", "total_room_count", "daily_active_users",
      "daily_messages" }

\* The columns of revision 2's CREATE TABLE.
TableCols2 ==
    { "id", "homeserver", "local_timestamp", "remote_timestamp", "remote_addr",
      "forwarded_for", "uptime_seconds", "total_users", "total_nonbridged_users",
      "total_room_count", "daily_active_users", "daily_active_rooms",
      "daily_messages", "daily_sent_messages", "user_agent" }

TableCols(v) == IF v = 1 THEN TableCols1 ELSE TableCols2

\* DROP TABLE IF EXISTS stats; CREATE TABLE stats(...)
createTableReplace(t, v) ==
    [exists |-> TRUE, cols |-> TableCols(v), rows |-> << >>]

\* CREATE TABLE IF NOT EXISTS stats(...): an existing table is not touched,
\* whatever its columns are.
createTableExec(t, v) ==
    IF t.exists THEN t
    ELSE [exists |-> TRUE, cols |-> TableCols(v), rows |-> << >>]

\* database/sql's default parameter converter: a nil pointer is NULL, any
\* other pointer is the value it points to.
ConvertValue(x) ==
    IF x.k = "*int64" THEN (IF x.v = << >> THEN Null ELSE << x.v[1] >>)
    ELSE << x.v[1] >>

\* The placeholder syntax a backend parses as its k-th parameter.
ParsesAs(driver, ph, k) ==
    IF driver = "mysql" THEN ph = "?" ELSE ph = "?" \/ ph = "$" \o Itoa(k)

\* The backend rejects an INSERT that names a column the table does not have,
\* or whose placeholders do not match the bound values.
Rejected(t, driver, st) ==
    \/ ~t.exists
    \/ \E i \in 1 .. Len(st.cols) : st.cols[i] \notin t.cols
    \/ Len(st.placeholders) # Len(st.vals)
    \/ Len(st.cols) # Len(st.vals)
    \/ \E k \in 1 .. Len(st.placeholders) : ~ParsesAs(driver, st.placeholders[k], k)

\* The row an accepted INSERT stores: the k-th bound value in the k-th listed
\* column, the next id in id, NULL in every other column.
NewRow(t, st) ==
    [ c \in t.cols |->
        IF c = "id" THEN << Len(t.rows) + 1 >>
        ELSE IF \E k \in 1 .. Len(st.cols) : st.cols[k] = c
             THEN ConvertValue(st.vals[CHOOSE k \in 1 .. Len(st.cols) : st.cols[k] = c])
             ELSE Null ]

\* DB.Exec of the INSERT: one statement, so a row is stored whole or not at all.
\* down: the backend is unreachable or fails for a reason of its own.
ExecInsert(t, driver, st, down) ==
    IF down \/ Rejected(t, driver, st)
    THEN [err |-> TRUE, table |-> t, id |-> 0]
    ELSE [err |-> FALSE,
          table |-> [t EXCEPT !.rows = Append(t.rows, NewRow(t, st))],
          id |-> Len(t.rows) + 1]

-----------------------------------------------------------------------------
(* main *)

\* sql.Open fails for a driver that no import registered.
AfterOpen(driver) == IF driver \in Registered THEN "opened" ELSE "exited"

\* createTable's error is logged and main goes on.
AfterCreateTableIgnored(err) == "provisioned"

\* if err := createTable(db); err != nil { log.Fatalf(...) }
AfterCreateTable(err) == IF err THEN "exited" ELSE "provisioned"

Open ==
    /\ mainpc = "start"
    /\ mainpc' = AfterOpen(DriverName(rev, dbDriver))
    /\ UNCHANGED << rev, dbDriver, stats, restarts, clock, pc, request, now, sr, stmt,
                    saveErr, response, execs, inserted >>

CreateTable ==
    /\ mainpc = "opened"
    /\ \E down \in BOOLEAN :
          /\ stats' = IF down THEN stats ELSE createTableExec(stats, rev)
          /\ mainpc' = AfterCreateTable(down)
    /\ UNCHANGED << rev, dbDriver, restarts, clock, pc, request, now, sr, stmt,
                    saveErr, response, execs, inserted >>

\* http.HandleFunc("/push", r.Handle); http.HandleFunc("/test", ...)
Register ==
    /\ mainpc = "provisioned"
    /\ mainpc' = "registered"
    /\ UNCHANGED << rev, dbDriver, stats, restarts, clock, pc, request, now, sr, stmt,
                    saveErr, response, execs, inserted >>

\* log.Fatal(http.ListenAndServe(...)): it serves, or returns at once (the
\* port is taken) and the process exits.
Listen ==
    /\ mainpc = "registered"
    /\ \E bound \in BOOLEAN : mainpc' = IF bound THEN "serving" ELSE "exited"
    /\ UNCHANGED << rev, dbDriver, stats, restarts, clock, pc, request, now, sr, stmt,
                    saveErr, response, execs, inserted >>

-----------------------------------------------------------------------------
(* Recorder.Handle *)

NoRequest == [body |-> Malformed, RemoteAddr |-> "", Header |-> NoHeaders]
NoResponse == [code |-> 0, body |-> ""]

\* w.WriteHeader(code); io.WriteString(w, `{"error_message": ...}`)
logAndReplyError(code) ==
    [code |-> code, body |-> "{\"error_message\": \"unable to process request\"}"]

\* io.WriteString(w, "{}") with no WriteHeader before it
ReplyOK == [code |-> 200, body |-> "{}"]

\* sr as a package-level variable that every call of Handle shares.
SlotShared(r) == 1

\* "var sr StatsReport" is a local of Handle: each call has its own.
Slot(r) == r

\* The decode error is replied to, but the return is missing.
AfterDecodeNoReturn(err) == "stamp"

\* if err := dec.Decode(&sr); err != nil { logAndReplyError(...); return }
AfterDecode(err) == IF err THEN "done" ELSE "stamp"

\* A failed Save is tried a second time.
AfterSaveRetry(err, n) == IF err /\ n < 2 THEN "save" ELSE "done"

\* if err := r.Save(sr); err != nil { logAndReplyError(...); return }: Save is
\* called once, whatever it returns (n is the number of calls so far).
AfterSave(err, n) == "done"

\* The fields Handle assigns after the decode, revision 1.
Stamped1(s, t, req) ==
    [s EXCEPT !.LocalTimestamp = t, !.RemoteAddr = req.RemoteAddr]

\* As Stamped2, but a header that is not there leaves the decoded field alone.
Stamped2IfSet(s, t, req) ==
    [s EXCEPT !.LocalTimestamp = t,
              !.RemoteAddr = req.RemoteAddr,
              !.XForwardedFor = IF req.Header.XForwardedFor # ""
                                THEN req.Header.XForwardedFor ELSE @,
              !.UserAgent = IF req.Header.UserAgent # ""
                            THEN req.Header.UserAgent ELSE @]

\* The fields Handle assigns after the decode, revision 2: req.Header.Get
\* returns "" for a header that is not there.
Stamped2(s, t, req) ==
    [s EXCEPT !.LocalTimestamp = t,
              !.RemoteAddr = req.RemoteAddr,
              !.XForwardedFor = req.Header.XForwardedFor,
              !.UserAgent = req.Header.UserAgent]

Stamped(v, s, t, req) == IF v = 1 THEN Stamped1(s, t, req) ELSE Stamped2(s, t, req)

\* Requests still on their way to the database.
InFlight == { q \in Reqs : pc[q] \in {"decode", "stamp", "save"} }

\* The HTTP server calls Handle in a goroutine of its own for a POST /push.
Receive(r) ==
    /\ mainpc = "serving"
    /\ pc[r] = "idle"
    /\ Len(stats.rows) + Cardinality(InFlight) < MaxRows
    /\ \E b \in Bodies, c \in Clients :
          request' = [request EXCEPT ![r] =
                        [body |-> b, RemoteAddr |-> c.RemoteAddr, Header |-> c.Header]]
    /\ pc' = [pc EXCEPT ![r] = "decode"]
    /\ UNCHANGED << rev, dbDriver, mainpc, stats, restarts, clock, now, sr, stmt,
                    saveErr, response, execs, inserted >>

DecodeBody(r) ==
    /\ pc[r] = "decode"
    /\ LET d == Decode(StatsReport(rev), request[r].body) IN
          /\ sr' = [sr EXCEPT ![Slot(r)] = d.sr]
          /\ response' = [response EXCEPT ![r] =
                            IF d.err THEN logAndReplyError(400) ELSE @]
          /\ pc' = [pc EXCEPT ![r] = AfterDecode(d.err)]
    /\ UNCHANGED << rev, dbDriver, mainpc, stats, restarts, clock, request, now, stmt,
                    saveErr, execs, inserted >>

Stamp(r) ==
    /\ pc[r] = "stamp"
    /\ now' = [now EXCEPT ![r] = clock]
    /\ sr' = [sr EXCEPT ![Slot(r)] = Stamped(rev, @, now'[r], request[r])]
    /\ pc' = [pc EXCEPT ![r] = "save"]
    /\ UNCHANGED << rev, dbDriver, mainpc, stats, restarts, clock, request, stmt,
                    saveErr, response, execs, inserted >>

\* r.Save(sr): builds the statement and executes it.
Save(r) ==
    /\ pc[r] = "save"
    /\ \E down \in BOOLEAN :
          LET st == InsertStmt(rev, dbDriver, sr[Slot(r)])
              res == ExecInsert(stats, DriverName(rev, dbDriver), st, down)
          IN  /\ stmt' = [stmt EXCEPT ![r] = st]
              /\ stats' = res.table
              /\ saveErr' = [saveErr EXCEPT ![r] = res.err]
              /\ inserted' = [inserted EXCEPT ![r] = res.id]
    /\ execs' = [execs EXCEPT ![r] = @ + 1]
    /\ pc' = [pc EXCEPT ![r] = "reply"]
    /\ UNCHANGED << rev, dbDriver, mainpc, restarts, clock, request, now, sr, response >>

Reply(r) ==
    /\ pc[r] = "reply"
    /\ response' = [response EXCEPT ![r] =
                      IF saveErr[r] THEN logAndReplyError(500) ELSE ReplyOK]
    /\ pc' = [pc EXCEPT ![r] = AfterSave(saveErr[r], execs[r])]
    /\ UNCHANGED << rev, dbDriver, mainpc, stats, restarts, clock, request, now, sr,
                    stmt, saveErr, execs, inserted >>

-----------------------------------------------------------------------------
(* The process and its environment *)

Fresh(v) ==
    /\ pc = [r \in Reqs |-> "idle"]
    /\ request = [r \in Reqs |-> NoRequest]
    /\ now = [r \in Reqs |-> 0]
    /\ sr = [r \in Reqs |-> ZeroReport(v)]
    /\ stmt = [r \in Reqs |-> NoStmt]
    /\ saveErr = [r \in Reqs |-> FALSE]
    /\ response = [r \in Reqs |-> NoResponse]
    /\ execs = [r \in Reqs |-> 0]
    /\ inserted = [r \in Reqs |-> 0]

\* The process ends (log.Fatal, a signal, a deployment) and the same or the
\* next revision is started on the same database.
Restart ==
    /\ restarts < MaxRestarts
    /\ restarts' = restarts + 1
    /\ \E v \in Revs : v >= rev /\ rev' = v
    /\ clock' = clock + 1
    /\ mainpc' = "start"
    /\ pc' = [r \in Reqs |-> "idle"]
    /\ request' = [r \in Reqs |-> NoRequest]
    /\ now' = [r \in Reqs |-> 0]
    /\ sr' = [r \in Reqs |-> ZeroReport(rev')]
    /\ stmt' = [r \in Reqs |-> NoStmt]
    /\ saveErr' = [r \in Reqs |-> FALSE]
    /\ response' = [r \in Reqs |-> NoResponse]
    /\ execs' = [r \in Reqs |-> 0]
    /\ inserted' = [r \in Reqs |-> 0]
    /\ UNCHANGED << dbDriver, stats >>

Init ==
    /\ rev \in Revs
    /\ dbDriver \in Drivers
    /\ rev = 1 => dbDriver = "sqlite3"
    /\ mainpc = "start"
    /\ stats = NoTable
    /\ restarts = 0
    /\ clock = 1000
    /\ Fresh(rev)

Next ==
    \/ Open
    \/ CreateTable
    \/ Register
    \/ Listen
    \/ Restart
    \/ \E r \in Reqs : Receive(r)
    \/ \E r \in Reqs : DecodeBody(r)
    \/ \E r \in Reqs : Stamp(r)
    \/ \E r \in Reqs : Save(r)
    \/ \E r \in Reqs : Reply(r)

Spec == Init /\ [][Next]_vars

-----------------------------------------------------------------------------
(* One request with any combination of counters and headers *)

NumericKeys == << "timestamp", "uptime_seconds", "total_users",
                  "total_nonbridged_users", "total_room_count",
                  "daily_active_users", "daily_active_rooms", "daily_messages",
                  "daily_sent_messages" >>

KeyIndex(k) == CHOOSE i \in 1 .. Len(NumericKeys) : NumericKeys[i] = k

\* A report from a.org carrying the counters named in keys: all of them 0, or
\* each a value of its own.
WideBody(keys, zero) ==
    Object([ k \in keys \cup {"Homeserver"} |->
               IF k = "Homeserver" THEN JStr("a.org")
               ELSE JNum(IF zero THEN 0 ELSE 10 + KeyIndex(k)) ])

WideBodies ==
    { WideBody(keys, zero) :
        keys \in SUBSET { NumericKeys[i] : i \in 1 .. Len(NumericKeys) },
        zero \in BOOLEAN }

WideHeaders == [XForwardedFor : {"", "1.2.3.4"}, UserAgent : {"", "Synapse"}]

\* The service is up, on a table that this revision or an earlier one created,
\* and one request has just arrived.
InitWide ==
    /\ rev \in Revs
    /\ dbDriver \in Registered
    /\ rev = 1 => dbDriver = "sqlite3"
    /\ mainpc = "serving"
    /\ \E v \in Revs :
          /\ v <= rev
          /\ dbDriver = "mysql" => v = rev
          /\ stats = createTableExec(NoTable, v)
          /\ restarts = rev - v
    /\ clock = 1000 + restarts
    /\ pc = [r \in Reqs |-> IF r = 1 THEN "decode" ELSE "idle"]
    /\ \E b \in WideBodies, h \in WideHeaders :
          request = [r \in Reqs |->
                       IF r = 1
                       THEN [body |-> b, RemoteAddr |-> "10.0.0.1:4000", Header |-> h]
                       ELSE NoRequest]
    /\ now = [r \in Reqs |-> 0]
    /\ sr = [r \in Reqs |-> ZeroReport(rev)]
    /\ stmt = [r \in Reqs |-> NoStmt]
    /\ saveErr = [r \in Reqs |-> FALSE]
    /\ response = [r \in Reqs |-> NoResponse]
    /\ execs = [r \in Reqs |-> 0]
    /\ inserted = [r \in Reqs |-> 0]

NextWide ==
    \/ \E r \in Reqs : DecodeBody(r)
    \/ \E r \in Reqs : Stamp(r)
    \/ \E r \in Reqs : Save(r)
    \/ \E r \in Reqs : Reply(r)

SpecWide == InitWide /\ [][NextWide]_vars

-----------------------------------------------------------------------------
(* Vocabulary of the properties *)

\* Requests whose INSERT stored a row, and the row of each.
Stored == { r \in Reqs : inserted[r] > 0 }
RowOf(r) == stats.rows[inserted[r]]

\* Requests answered with the success body.
Succeeded == { r \in Reqs : pc[r] = "done" /\ response[r] = ReplyOK }

\* Requests whose Save has called DB.Exec.
Executed == { r \in Reqs : execs[r] > 0 }

AlwaysColumns == << "homeserver", "local_timestamp", "remote_addr" >>

\* The optional columns in canonical order.
CanonicalOrder == << "remote_timestamp", "uptime_seconds", "total_users",
                     "total_nonbridged_users", "total_room_count",
                     "daily_active_users", "daily_active_rooms", "daily_messages",
                     "daily_sent_messages", "forwarded_for", "user_agent" >>

HeaderColumns == {"forwarded_for", "user_agent"}
CounterColumns == { CanonicalOrder[i] : i \in 1 .. Len(CanonicalOrder) } \ HeaderColumns

\* The struct field and the JSON key behind each column.
FieldOfColumn ==
    [ homeserver |-> "Homeserver", local_timestamp |-> "LocalTimestamp",
      remote_addr |-> "RemoteAddr", remote_timestamp |-> "RemoteTimestamp",
      uptime_seconds |-> "UptimeSeconds", total_users |-> "TotalUsers",
      total_nonbridged_users |-> "TotalNonBridgedUsers",
      total_room_count |-> "TotalRoomCount",
      daily_active_users |-> "DailyActiveUsers",
      daily_active_rooms |-> "DailyActiveRooms", daily_messages |-> "DailyMessages",
      daily_sent_messages |-> "DailySentMessages",
      forwarded_for |-> "XForwardedFor", user_agent |-> "UserAgent" ]

KeyOfColumn(c) == IF c = "remote_timestamp" THEN "timestamp" ELSE c

\* An optional field is present in a report: a counter that is not nil, a
\* header value that is not empty.  A field the revision's struct does not
\* have is never present.
Present(s, c) ==
    /\ FieldOfColumn[c] \in DOMAIN s
    /\ IF c \in HeaderColumns THEN s[FieldOfColumn[c]] # ""
       ELSE s[FieldOfColumn[c]] # << >>

IsPresent(s) == [ c \in { CanonicalOrder[i] : i \in 1 .. Len(CanonicalOrder) } |-> Present(s, c) ]

ExpectedCols(s) ==
    LET p == IsPresent(s)
        Keep(c) == p[c]
    IN  AlwaysColumns \o SelectSeq(CanonicalOrder, Keep)

\* What a stored column holds for a header value: "" leaves it unset.
HeaderValue(h) == IF h = "" THEN Null ELSE << h >>

\* What a stored counter column holds for a request body.
CounterValue(body, c) ==
    IF KeyOfColumn(c) \in DOMAIN body.obj /\ body.obj[KeyOfColumn(c)].k = "number"
    THEN << body.obj[KeyOfColumn(c)].v[1] >>
    ELSE Null

\* The row a request must produce in table columns cols, from its own body and
\* metadata alone.
OwnRow(r, cols) ==
    [ c \in cols |->
        CASE c = "id" -> << inserted[r] >>
          [] c = "homeserver" -> << request[r].body.obj.Homeserver.v[1] >>
          [] c = "local_timestamp" -> << now[r] >>
          [] c = "remote_addr" -> << request[r].RemoteAddr >>
          [] c = "forwarded_for" -> HeaderValue(request[r].Header.XForwardedFor)
          [] c = "user_agent" -> HeaderValue(request[r].Header.UserAgent)
          [] OTHER -> CounterValue(request[r].body, c) ]

-----------------------------------------------------------------------------
(* Properties *)

\* C1: the column list of every INSERT that Save issues is homeserver,
\* local_timestamp, remote_addr, followed by the columns of the optional fields
\* that are present in the report, in canonical order, and by no other column.
C1_ColumnList ==
    \A r \in Executed : stmt[r].cols = ExpectedCols(sr[r])

\* C1 witness: a Save of a report with every optional field present has
\* listed all fourteen columns.
C1_Witness ==
    \E r \in Executed :
        /\ Len(stmt[r].cols) = 14
        /\ \A i \in 1 .. Len(CanonicalOrder) : Present(sr[r], CanonicalOrder[i])

\* C2: however the steps of two concurrent requests interleave, a request
\* answered with {} has stored one row of its own, which holds its own body's
\* and metadata's values in every column, no two requests share a row, and the
\* table has as many rows as Save calls have succeeded.
C2_OwnRowEach ==
    /\ \A r \in Succeeded :
          /\ r \in Stored
          /\ inserted[r] <= Len(stats.rows)
          /\ RowOf(r) = OwnRow(r, stats.cols)
    /\ \A r \in Stored : \A q \in Stored : r # q => inserted[r] # inserted[q]
    /\ restarts = 0 => Len(stats.rows) = Cardinality(Stored)

\* C2 witness: two requests with different reports from different clients
\* were both answered with {}, the second one received having committed first.
C2_Witness ==
    /\ Succeeded = Reqs
    /\ request[1].body # request[2].body
    /\ request[1].RemoteAddr # request[2].RemoteAddr
    /\ inserted[2] < inserted[1]

\* C3: once the schema is provisioned, every column an INSERT of Save names
\* is a column of the table stats.
C3_ColumnsProvisioned ==
    \A r \in Executed :
        \A i \in 1 .. Len(stmt[r].cols) : stmt[r].cols[i] \in stats.cols

\* C4: in the row a successful Save stored, the column of every optional
\* counter holds the counter's value when the report has one (0 included) and
\* is NULL when it has none, and the i-th bound value is the value of the
\* field that the i-th listed column names.
C4_CountersAsReported ==
    /\ \A r \in Stored :
          \A c \in CounterColumns \cap stats.cols :
              RowOf(r)[c] = IF Present(sr[r], c) THEN sr[r][FieldOfColumn[c]] ELSE Null
    /\ \A r \in Executed :
          \A i \in 1 .. Len(stmt[r].cols) :
              /\ i <= Len(stmt[r].vals)
              /\ stmt[r].vals[i].v =
                    IF stmt[r].cols[i] \in CounterColumns
                    THEN sr[r][FieldOfColumn[stmt[r].cols[i]]]
                    ELSE << sr[r][FieldOfColumn[stmt[r].cols[i]]] >>

\* C4 witness: a stored row holds 0 in total_users and NULL in uptime_seconds.
C4_Witness ==
    \E r \in Stored :
        /\ RowOf(r).total_users = << 0 >>
        /\ RowOf(r).uptime_seconds = Null
        /\ "total_users" \in DOMAIN request[r].body.obj
        /\ "uptime_seconds" \notin DOMAIN request[r].body.obj

\* C5: a request whose body fails to decode is answered with status 400 and
\* the generic error body, causes no call of Save and stores no row.
C5_DecodeErrorReplies400 ==
    \A r \in Reqs :
        (pc[r] \notin {"idle", "decode"} /\ Decode(StatsReport(rev), request[r].body).err)
        => /\ pc[r] = "done"
           /\ response[r] = logAndReplyError(400)
           /\ execs[r] = 0
           /\ stmt[r] = NoStmt
           /\ inserted[r] = 0

\* C5 witness: the body {"Homeserver": true} was answered with 400 while the
\* other request stored a row.
C5_Witness ==
    \E r \in Reqs :
        /\ pc[r] = "done"
        /\ request[r].body = Object([Homeserver |-> JBool])
        /\ response[r].code = 400
        /\ Stored # {}

\* C6: a request whose INSERT failed is answered with status 500 and the
\* generic error body and has stored no row; the INSERT is executed once per
\* request, never again; a request answered with {} has stored one row.
C6_PersistErrorReplies500 ==
    /\ \A r \in Reqs : execs[r] <= 1
    /\ \A r \in Reqs :
          (pc[r] = "done" /\ execs[r] > 0 /\ saveErr[r])
          => /\ response[r] = logAndReplyError(500)
             /\ inserted[r] = 0
    /\ \A r \in Reqs : saveErr[r] => inserted[r] = 0
    /\ \A r \in Succeeded : execs[r] = 1 /\ ~saveErr[r] /\ r \in Stored
    /\ restarts = 0 =>
          Len(stats.rows) = Cardinality({ r \in Executed : ~saveErr[r] })

\* C6 witness: a request whose INSERT failed against a provisioned table of
\* its own revision was answered with 500, and the table is empty.
C6_Witness ==
    \E r \in Reqs :
        /\ pc[r] = "done"
        /\ execs[r] = 1
        /\ saveErr[r]
        /\ response[r].code = 500
        /\ stats.cols = TableCols(rev)
        /\ stats.rows = << >>

\* C7: a request is handled only while main is serving, which it is only
\* after createTable has succeeded; a process that has exited handles none.
C7_ProvisionBeforeServe ==
    /\ \A r \in Reqs : pc[r] # "idle" => mainpc = "serving"
    /\ mainpc \in {"provisioned", "registered", "serving"} => stats.exists
    /\ mainpc \in {"start", "opened"} => \A r \in Reqs : pc[r] = "idle"

\* C7 witness: createTable failed on a registered driver and the process
\* exited with no table and no request handled.
C7_Witness ==
    /\ mainpc = "exited"
    /\ DriverName(rev, dbDriver) \in Registered
    /\ ~stats.exists
    /\ \A r \in Reqs : pc[r] = "idle"

\* C8: the stored local_timestamp, remote_addr, forwarded_for and user_agent
\* are the receipt time, the peer address and the two header values (unset
\* for an empty header), whatever the body says; two requests with the same
\* receipt time, peer and headers store the same four values.
C8_MetadataNotFromBody ==
    /\ \A r \in Stored :
          \A c \in {"local_timestamp", "remote_addr", "forwarded_for", "user_agent"}
                   \cap stats.cols :
              RowOf(r)[c] = OwnRow(r, stats.cols)[c]
    /\ \A r \in Stored : \A q \in Stored :
          ( /\ now[r] = now[q]
            /\ request[r].RemoteAddr = request[q].RemoteAddr
            /\ request[r].Header = request[q].Header )
          => \A c \in {"local_timestamp", "remote_addr", "forwarded_for", "user_agent"}
                      \cap stats.cols :
                 RowOf(r)[c] = RowOf(q)[c]

\* C8 witness: two requests from the same client without headers, one of
\* them with a body that names LocalTimestamp, RemoteAddr, XForwardedFor and
\* UserAgent, have both stored a row in a table that has the header columns.
C8_Witness ==
    /\ Stored = Reqs
    /\ request[1].Header = NoHeaders
    /\ request[2].Header = NoHeaders
    /\ request[1].RemoteAddr = request[2].RemoteAddr
    /\ "XForwardedFor" \in DOMAIN request[1].body.obj
    /\ "XForwardedFor" \notin DOMAIN request[2].body.obj
    /\ "forwarded_for" \in stats.cols

DollarNumbered == << "$1", "$2", "$3", "$4", "$5", "$6", "$7", "$8", "$9", "$10",
                     "$11", "$12", "$13", "$14" >>

\* C9: Save generates as many placeholders as it binds values and lists
\* columns, and the k-th is "?" under mysql and "$k" under any other driver.
C9_Placeholders ==
    \A r \in Executed :
        /\ Len(stmt[r].placeholders) = Len(stmt[r].vals)
        /\ Len(stmt[r].placeholders) = Len(stmt[r].cols)
        /\ \A k \in 1 .. Len(stmt[r].placeholders) :
              stmt[r].placeholders[k] =
                  IF DriverName(rev, dbDriver) = "mysql" THEN "?" ELSE DollarNumbered[k]

\* C9 witness: a Save under sqlite3 has numbered fourteen placeholders.
C9_Witness ==
    \E r \in Executed :
        /\ DriverName(rev, dbDriver) = "sqlite3"
        /\ Len(stmt[r].placeholders) = 14
        /\ stmt[r].placeholders[14] = "$14"

\* C10: a createTable step leaves a table that exists exactly as it is, its
\* columns and its rows.
C10_CreateTableIdempotent ==
    [][(mainpc = "opened" /\ mainpc' # "opened" /\ stats.exists) => stats' = stats]_vars

\* C10 witness: revision 2's createTable has returned on a table that
\* revision 1 created and that holds a row.
C10_Witness ==
    /\ mainpc = "provisioned"
    /\ rev = 2
    /\ stats.cols = TableCols1
    /\ Len(stats.rows) >= 1

====
